---- MODULE Spec2Model ----
(***************************************************************************)
(* TradeZero webhook execution server (tz_webhook_server.py): the          *)
(* per-symbol state machine FLAT / LOCATING / ACTIVE / BLOCKED, the        *)
(* webhook dispatcher, the locate-and-short thread, the cancel-and-cleanup *)
(* thread, the manual reset endpoint and the midnight reset thread.        *)
(*                                                                         *)
(* Every webhook request is one process i.  It runs the request handler    *)
(* and, when the handler starts a thread (locate_and_short or              *)
(* cancel_and_cleanup), the same index i then runs that thread: the        *)
(* handler does nothing after Thread.start() but return its response.      *)
(* A step is one access to the shared store (one `with state_lock` block)  *)
(* or one broker round trip, together with the thread-local code around    *)
(* it.  Prices are in cents.                                               *)
(***************************************************************************)
EXTENDS Integers, FiniteSets, Sequences, TLC

\* ---------------------------------------------------------------- bounds
MaxSignals == 3        \* webhook requests received in a run
MaxRunning == 2        \* requests and threads in flight at a time
MaxPolls   == 2        \* iterations of the poll loop before its deadline
\* the runs that go through the values: requests one at a time
GateSignals == 2
GateRunning == 1
\* threads under way at a time in the lock-level view
LockThreads == 3
\* broker calls counted for a thread whose episode has ended
MaxStaleCalls == 1

\* ------------------------------------------------------- program constants
MIN_LOCATE_QUANTITY == 100
\* MAX_LOCATE_COST_PCT = 0.02, in percent
MAX_LOCATE_COST_PCT == 2
\* LIMIT_BUFFER = 0.005, in thousandths
LIMIT_BUFFER == 5

Symbols == {"LRMR"}
Procs   == 1..MaxSignals

\* A dict key that is not there (dict.get gives None).
NoVal    == -1
NoReason == "none"

\* ------------------------------------------------------------ the inputs
SignalActions    == {"SHORT", "COVER", "CANCEL", "BUY"}
\* quantity and price of a SHORT signal: a full one, and one lacking each
SignalInputs     == {<<500, 570>>, <<0, 570>>, <<500, 0>>}
\* buyingPower and marginAvailable reported by the account endpoint
AccountInputs    == {<<1000000, 1000000>>, <<1000000, 50000>>}
\* an offered locate: locateError, inventory wording in its text, locateShares,
\* locatePrice
LocateItems      == {<<0, FALSE, 500, 5>>, <<0, FALSE, 0, 5>>, <<1, FALSE, 500, 5>>,
                     <<0, TRUE, 500, 5>>, <<0, FALSE, 50, 5>>, <<0, FALSE, 500, 25>>}
\* priceClose / priceAvg reported with a position
PositionPrices   == {0, 550}

\* The same inputs in more values, for the runs that take requests one at a
\* time: quantities and prices on both sides of every threshold.
GateSignalInputs  == SignalInputs \cup {<<150, 570>>, <<500, 1000>>, <<500, 1200>>}
GateAccountInputs == AccountInputs \cup
                     {<<100000, 100000>>, <<57000, 57000>>, <<56999, 1000000>>,
                      <<171000, 1000000>>}
GateLocateItems   == LocateItems \cup
                     {<<0, FALSE, 300, 5>>, <<0, FALSE, 100, 5>>, <<0, FALSE, 99, 5>>,
                      <<0, FALSE, 500, 0>>, <<0, FALSE, 500, 11>>, <<0, FALSE, 500, 12>>,
                      <<0, FALSE, 500, 15>>, <<0, FALSE, 500, 20>>, <<0, FALSE, 500, 21>>}

VARIABLES
    store,        \* symbol_state: a dict symbol -> record
    proc,         \* the request handlers and the threads they start
    orders,       \* the broker's order book: the order each process placed
    position,     \* the broker's positions: signed share count per symbol
    stale,        \* the locate threads whose LOCATING episode has ended
    staleCalls,   \* per locate thread: the broker calls it has completed
                  \* since its episode ended
    cancelled,    \* the symbols with a CANCEL handled since their last reset or clear
    cleared,      \* the workflow threads that were running at a daily clear
    clock,        \* time.time() in milliseconds, as far as quote ids see it
    nsig,         \* webhook requests received so far
    env,          \* what the run is fed: how many requests, how many at a
                  \* time, and the values QuantConnect and the broker send;
                  \* and whether the books staleCalls and cleared are kept
    lock,         \* state_lock: the thread inside a `with state_lock` block
    thread        \* per thread of the lock-level view: the calls it makes
                  \* and how far it is through them

vars == <<store, proc, orders, position, stale, staleCalls, cancelled, cleared, clock,
         nsig, env, lock, thread>>

\* ------------------------------------------------------ symbol state store
NewRec == [state |-> "FLAT", entry_price |-> NoVal, quantity |-> NoVal,
           quote_req_id |-> NoVal, client_order_id |-> NoVal, reason |-> NoReason]

Fields == DOMAIN NewRec

\* get_state(symbol).get("state", "FLAT") as the dispatcher reads it
StateView(st, s) == IF s \in DOMAIN st THEN st[s].state ELSE "FLAT"

\* get_state(symbol).get("state") as the workflows read it: None when absent
StateGet(st, s) == IF s \in DOMAIN st THEN st[s].state ELSE "None"

\* set_state(symbol, **kwargs): default the entry to FLAT, then dict.update
SetState(st, s, kw) ==
    LET base == IF s \in DOMAIN st THEN st[s] ELSE NewRec
    IN  [x \in (DOMAIN st) \cup {s} |->
            IF x = s THEN [f \in Fields |-> IF f \in DOMAIN kw THEN kw[f] ELSE base[f]]
            ELSE st[x]]

\* block() that drops its reason
BlockWithoutReason(st, s, reason) == SetState(st, s, [state |-> "BLOCKED"])

\* block(symbol, reason)
Block(st, s, reason) == SetState(st, s, [state |-> "BLOCKED", reason |-> reason])

\* a clear that spares the symbols with a workflow or a position
ClearAllIdle(st) ==
    [x \in {y \in DOMAIN st : st[y].state \in {"LOCATING", "ACTIVE"}} |-> st[x]]

\* symbol_state.clear()
ClearAll(st) == [x \in {} |-> NewRec]

\* a reset through set_state(symbol, state="FLAT")
ResetToKeepsFields(st, s) == SetState(st, s, [state |-> "FLAT"])

\* symbol_state[symbol] = {"state": "FLAT"}
ResetTo(st, s) == [x \in (DOMAIN st) \cup {s} |-> IF x = s THEN NewRec ELSE st[x]]

\* ------------------------------------------------------------- processes
NoOrder == [side |-> "none", sym |-> "", qty |-> 0, limit |-> 0, status |-> "none"]

IdleProc == [pc |-> "idle", action |-> "", sym |-> "", qty |-> 0, price |-> 0,
             snap |-> "", resp |-> "none", kind |-> "none",
             available_cash |-> 0, margin_available |-> 0, max_affordable |-> 0,
             req_qty |-> 0, polls |-> 0, locate_price |-> 0, offered_quantity |-> 0,
             final_qty |-> 0, reason |-> NoReason, cover_qty |-> 0, last_price |-> 0,
             cover_limit |-> 0]

\* A handler or thread that has ended: its locals are gone.
Ended(p, pc, resp) == [IdleProc EXCEPT !.pc = pc, !.resp = resp]

\* ------------------------------------------------------ the lock-level view
\* What a function does to state_lock and to the network, in the order of its
\* code: "acquire" and "release" are the ends of a `with state_lock` block,
\* "send" and "receive" the ends of a requests.get / post / delete call.
NoHolder == "nobody"

GetStateOps == <<"acquire", "release">>
SetStateOps == <<"acquire", "release">>
BlockOps    == SetStateOps
TzCallOps   == <<"send", "receive">>

\* poll_locate_status: one GET per iteration of its loop
RECURSIVE PollOps(_)
PollOps(n) == IF n = 0 THEN <<>> ELSE TzCallOps \o PollOps(n - 1)

\* locate_and_short, one sequence per place it can return from
LocateToRequest == TzCallOps \o SetStateOps \o TzCallOps
LocateToOffer(n) == LocateToRequest \o GetStateOps \o PollOps(n) \o GetStateOps
LocateToAccept(n) == LocateToOffer(n) \o TzCallOps
LocateCalls ==
    {TzCallOps \o BlockOps, LocateToRequest \o BlockOps,
     LocateToRequest \o GetStateOps}
    \cup UNION {{LocateToOffer(n), LocateToOffer(n) \o BlockOps,
                 LocateToAccept(n) \o BlockOps, LocateToAccept(n) \o GetStateOps,
                 LocateToAccept(n) \o GetStateOps \o TzCallOps \o SetStateOps}
                : n \in 1..MaxPolls}

\* cancel_and_cleanup: the open orders, a DELETE for one of them or none, the
\* position, a cover order or none, and the block
CleanupCalls ==
    {TzCallOps \o d \o TzCallOps \o c \o BlockOps :
        d \in {<<>>, TzCallOps}, c \in {<<>>, TzCallOps}}

\* webhook: the read of the state, then the branch of the action
WebhookCalls ==
    {GetStateOps, GetStateOps \o BlockOps, GetStateOps \o SetStateOps,
     GetStateOps \o TzCallOps \o BlockOps,
     GetStateOps \o TzCallOps \o TzCallOps,
     GetStateOps \o TzCallOps \o TzCallOps \o SetStateOps}

\* health: the probe of the broker, then the read of the states
HealthCallsProbeLocked == <<"acquire", "send", "receive", "release">>
HealthCalls == TzCallOps \o <<"acquire", "release">>

StateEndpointCalls == <<"acquire", "release">>
ResetSymbolCalls   == <<"acquire", "release">>
MidnightCalls      == <<"acquire", "release">>

Threads == {"webhook", "locate_and_short", "cancel_and_cleanup", "health",
            "state_endpoint", "reset_symbol", "midnight_reset_thread"}

Calls(t) ==
    CASE t = "webhook" -> WebhookCalls
      [] t = "locate_and_short" -> LocateCalls
      [] t = "cancel_and_cleanup" -> CleanupCalls
      [] t = "health" -> {HealthCalls}
      [] t = "state_endpoint" -> {StateEndpointCalls}
      [] t = "reset_symbol" -> {ResetSymbolCalls}
      [] OTHER -> {MidnightCalls}

\* A thread that is not under way: nothing left to do, no call open.
IdleThread == [ops |-> <<>>, net |-> FALSE]

Init ==
    /\ store = [x \in {} |-> NewRec]
    /\ proc = [i \in Procs |-> IdleProc]
    /\ orders = [i \in Procs |-> NoOrder]
    /\ position = [s \in Symbols |-> 0]
    /\ stale = {}
    /\ staleCalls = [i \in Procs |-> 0]
    /\ cancelled = {}
    /\ cleared = {}
    /\ clock = 0
    /\ nsig = 0
    /\ env = [signals |-> MaxSignals, running |-> MaxRunning,
              inputs |-> SignalInputs, accounts |-> AccountInputs,
              items |-> LocateItems, audit |-> FALSE]
    /\ lock = NoHolder
    /\ thread = [t \in Threads |-> IdleThread]

\* Bookkeeping of a step: a locate thread is stale once its symbol has
\* stopped being LOCATING while it runs.
StaleAfter ==
    {j \in Procs :
        /\ proc'[j].kind = "locate"
        /\ proc'[j].pc \notin {"done", "crashed", "aborted"}
        /\ \/ j \in stale
           \/ /\ proc[j].kind = "locate"
              /\ StateGet(store, proc[j].sym) = "LOCATING"
              /\ StateGet(store', proc[j].sym) # "LOCATING"}

\* The locate and cleanup threads that have not ended.
Workflows ==
    {j \in Procs : /\ proc[j].kind \in {"locate", "cleanup"}
                   /\ proc[j].pc \notin {"idle", "done", "crashed", "aborted"}}

\* Bookkeeping of a step: a thread that was running at a daily clear stays
\* marked until it ends.
ClearedAfter ==
    {j \in cleared : proc'[j].pc \notin {"idle", "done", "crashed", "aborted"}}

\* Bookkeeping of the daily clear: the threads that are running are marked.
ClearedAtMidnight == IF env.audit THEN Workflows ELSE {}

\* The steps of locate_and_short that are a round trip to the broker: the
\* account fetch, the locate request, a poll, the accept and the order.
BrokerCallPcs == {"account", "request", "poll", "accept", "order"}

\* Locate thread j completes a broker call in this step: it was at one of
\* those steps and the call did not raise out of the thread.
CompletesCall(j) ==
    /\ proc[j].kind = "locate"
    /\ proc[j].pc \in BrokerCallPcs
    /\ proc'[j] # proc[j]
    /\ proc'[j].pc # "crashed"

\* Bookkeeping of a step, in the runs that keep it: the calls a stale thread
\* that is still running has completed, counted up to MaxStaleCalls.
StaleCallsAfter ==
    [j \in Procs |->
        IF ~env.audit \/ j \notin StaleAfter THEN 0
        ELSE IF j \in stale /\ CompletesCall(j) /\ staleCalls[j] < MaxStaleCalls
             THEN staleCalls[j] + 1
        ELSE staleCalls[j]]

\* ------------------------------------------------------ webhook dispatcher
\* The requests being handled and the threads that have not ended.
Running == {j \in Procs : proc[j].pc \notin {"idle", "done", "crashed", "aborted"}}

\* webhook(), up to the read of the current state
Webhook_Parse(i) ==
    /\ i = nsig + 1
    /\ i \in Procs
    /\ i <= env.signals
    /\ Cardinality(Running) < env.running
    /\ nsig' = i
    /\ \/ \* invalid JSON
          /\ proc' = [proc EXCEPT ![i] = Ended(IdleProc, "done", "400 invalid JSON")]
       \/ \* missing symbol
          \E a \in SignalActions :
            proc' = [proc EXCEPT ![i] = Ended([IdleProc EXCEPT !.action = a], "done", "400 missing symbol")]
       \/ \E a \in SignalActions, s \in Symbols :
          \E qp \in (IF a = "SHORT" THEN env.inputs ELSE {<<0, 0>>}) :
            proc' = [proc EXCEPT ![i] =
                        [IdleProc EXCEPT !.pc = "dispatch", !.action = a, !.sym = s,
                                         !.qty = qp[1], !.price = qp[2],
                                         !.snap = StateView(store, s)]]
    /\ UNCHANGED <<store, orders, position, clock>>
    /\ stale' = StaleAfter
    /\ staleCalls' = StaleCallsAfter
    /\ cleared' = ClearedAfter
    /\ UNCHANGED <<cancelled, env, lock, thread>>

\* the LOCATING test of line 554 left out
ShortIgnoredOnlyBlocked(snap) == snap = "BLOCKED"

\* lines 550-556: SHORT is ignored while BLOCKED or LOCATING
ShortIgnored(snap) == snap \in {"BLOCKED", "LOCATING"}

\* line 558: SHORT is rejected while ACTIVE
ShortRejected(snap) == snap = "ACTIVE"

\* the price test of line 563 left out
ShortInvalidQuantityOnly(quantity, price) == quantity <= 0

\* line 563: a SHORT needs a quantity and a price
ShortInvalid(quantity, price) == quantity <= 0 \/ price <= 0

\* webhook(), action SHORT
Webhook_Short(i) ==
    LET p == proc[i] IN
    /\ p.pc = "dispatch"
    /\ p.action = "SHORT"
    /\ \/ /\ ShortIgnored(p.snap)
          /\ proc' = [proc EXCEPT ![i] = Ended(p, "done", "ignored")]
          /\ UNCHANGED store
       \/ /\ ~ShortIgnored(p.snap)
          /\ ShortRejected(p.snap)
          /\ store' = Block(store, p.sym, "duplicate SHORT received while ACTIVE")
          /\ proc' = [proc EXCEPT ![i] = Ended(p, "done", "rejected")]
       \/ /\ ~ShortIgnored(p.snap)
          /\ ~ShortRejected(p.snap)
          /\ ShortInvalid(p.qty, p.price)
          /\ proc' = [proc EXCEPT ![i] = Ended(p, "done", "400 quantity and price required")]
          /\ UNCHANGED store
       \/ /\ ~ShortIgnored(p.snap)
          /\ ~ShortRejected(p.snap)
          /\ ~ShortInvalid(p.qty, p.price)
          /\ store' = SetState(store, p.sym,
                     [state |-> "LOCATING", entry_price |-> p.price, quantity |-> p.qty])
          /\ proc' = [proc EXCEPT ![i] =
                        [p EXCEPT !.pc = "account", !.resp = "ok", !.kind = "locate"]]
    /\ UNCHANGED <<orders, position, clock, nsig>>
    /\ stale' = StaleAfter
    /\ staleCalls' = StaleCallsAfter
    /\ cleared' = ClearedAfter
    /\ UNCHANGED <<cancelled, env, lock, thread>>

\* lines 573, 577, 582: what COVER does in each state it reads
CoverIgnored(snap)  == snap = "BLOCKED"
CoverRejected(snap) == snap = "FLAT"
CoverCleanup(snap)  == snap = "LOCATING"

\* a price cut to the cent below instead of rounded
RoundCentsDown(num, den) == num \div den

\* round(x, 2) of the price num/den cents: to the nearest cent, halves to even
RoundCents(num, den) ==
    LET q == num \div den
        r == num % den
    IN  IF 2 * r > den \/ (2 * r = den /\ q % 2 = 1) THEN q + 1 ELSE q

\* round(last_price * (1 + LIMIT_BUFFER), 2)
CoverLimit(last_price) == RoundCents(last_price * (1000 + LIMIT_BUFFER), 1000)

\* round(entry_price * (1 - LIMIT_BUFFER), 2)
ShortLimit(entry_price) == RoundCents(entry_price * (1000 - LIMIT_BUFFER), 1000)

Abs(n) == IF n < 0 THEN -n ELSE n

Min(a, b) == IF a < b THEN a ELSE b

\* int(shares) without the abs
CoverQtySigned(shares) == shares

\* abs(int(shares))
CoverQty(shares) == Abs(shares)

\* place_order(): the order as the broker books it
NewOrder(side, s, qty, limit) ==
    [side |-> side, sym |-> s, qty |-> qty, limit |-> limit, status |-> "open"]

\* webhook(), action COVER, up to the position lookup of the ACTIVE path
Webhook_Cover(i) ==
    LET p == proc[i] IN
    /\ p.pc = "dispatch"
    /\ p.action = "COVER"
    /\ \/ /\ CoverIgnored(p.snap)
          /\ proc' = [proc EXCEPT ![i] = Ended(p, "done", "ignored")]
          /\ UNCHANGED store
       \/ /\ ~CoverIgnored(p.snap)
          /\ CoverRejected(p.snap)
          /\ store' = Block(store, p.sym, "COVER received with no active position")
          /\ proc' = [proc EXCEPT ![i] = Ended(p, "done", "rejected")]
       \/ /\ ~CoverIgnored(p.snap)
          /\ ~CoverRejected(p.snap)
          /\ CoverCleanup(p.snap)
          /\ proc' = [proc EXCEPT ![i] =
                        [p EXCEPT !.pc = "cancel_orders", !.resp = "ok", !.kind = "cleanup",
                                  !.reason = "COVER received while still locating"]]
          /\ UNCHANGED store
       \/ \* ACTIVE: get_position raises, Flask answers 500
          /\ ~CoverIgnored(p.snap) /\ ~CoverRejected(p.snap) /\ ~CoverCleanup(p.snap)
          /\ proc' = [proc EXCEPT ![i] = Ended(p, "done", "500")]
          /\ UNCHANGED store
       \/ \* ACTIVE: the fetch failed or the broker lists no position
          /\ ~CoverIgnored(p.snap) /\ ~CoverRejected(p.snap) /\ ~CoverCleanup(p.snap)
          /\ proc' = [proc EXCEPT ![i] =
                        [p EXCEPT !.pc = "cover_block",
                                  !.reason = "COVER received but no TZ position found"]]
          /\ UNCHANGED store
       \/ \* ACTIVE: the position is not short
          /\ ~CoverIgnored(p.snap) /\ ~CoverRejected(p.snap) /\ ~CoverCleanup(p.snap)
          /\ position[p.sym] >= 0
          /\ proc' = [proc EXCEPT ![i] =
                        [p EXCEPT !.pc = "cover_block",
                                  !.reason = "COVER received but position is not short"]]
          /\ UNCHANGED store
       \/ \* ACTIVE: a short position
          /\ ~CoverIgnored(p.snap) /\ ~CoverRejected(p.snap) /\ ~CoverCleanup(p.snap)
          /\ position[p.sym] < 0
          /\ \E last_price \in PositionPrices :
                proc' = [proc EXCEPT ![i] =
                            [p EXCEPT !.pc = "cover_order",
                                      !.cover_qty = CoverQty(position[p.sym]),
                                      !.last_price = last_price,
                                      !.cover_limit = CoverLimit(last_price)]]
          /\ UNCHANGED store
    /\ UNCHANGED <<orders, position, clock, nsig>>
    /\ stale' = StaleAfter
    /\ staleCalls' = StaleCallsAfter
    /\ cleared' = ClearedAfter
    /\ UNCHANGED <<cancelled, env, lock, thread>>

\* webhook(), COVER while ACTIVE: block(...) after the position lookup
Webhook_CoverBlock(i) ==
    LET p == proc[i] IN
    /\ p.pc = "cover_block"
    /\ store' = Block(store, p.sym, p.reason)
    /\ proc' = [proc EXCEPT ![i] = Ended(p, "done", "ok")]
    /\ UNCHANGED <<orders, position, clock, nsig>>
    /\ stale' = StaleAfter
    /\ staleCalls' = StaleCallsAfter
    /\ cleared' = ClearedAfter
    /\ UNCHANGED <<cancelled, env, lock, thread>>

\* a COVER path that blocks the symbol when its order fails, as the locate
\* thread does
Webhook_CoverOrderBlocks(i) ==
    LET p == proc[i] IN
    /\ p.pc = "cover_order"
    /\ \/ /\ orders' = [orders EXCEPT ![i] = NewOrder("Buy", p.sym, p.cover_qty, p.cover_limit)]
          /\ proc' = [proc EXCEPT ![i] = [p EXCEPT !.pc = "cover_done"]]
          /\ UNCHANGED store
       \/ /\ proc' = [proc EXCEPT ![i] = Ended(p, "done", "500 error")]
          /\ store' = Block(store, p.sym, "order placement failed")
          /\ UNCHANGED orders
    /\ UNCHANGED <<position, clock, nsig>>
    /\ stale' = StaleAfter
    /\ staleCalls' = StaleCallsAfter
    /\ cleared' = ClearedAfter
    /\ UNCHANGED <<cancelled, env, lock, thread>>

\* webhook(), COVER while ACTIVE: place_order("Buy", ...)
Webhook_CoverOrder(i) ==
    LET p == proc[i] IN
    /\ p.pc = "cover_order"
    /\ \/ /\ orders' = [orders EXCEPT ![i] = NewOrder("Buy", p.sym, p.cover_qty, p.cover_limit)]
          /\ proc' = [proc EXCEPT ![i] = [p EXCEPT !.pc = "cover_done"]]
          /\ UNCHANGED store
       \/ \* place_order raises: {"error": str(e)}, 500
          /\ proc' = [proc EXCEPT ![i] = Ended(p, "done", "500 error")]
          /\ UNCHANGED <<orders, store>>
    /\ UNCHANGED <<position, clock, nsig>>
    /\ stale' = StaleAfter
    /\ staleCalls' = StaleCallsAfter
    /\ cleared' = ClearedAfter
    /\ UNCHANGED <<cancelled, env, lock, thread>>

\* webhook(), COVER while ACTIVE: set_state(symbol, state="FLAT", reason="covered")
Webhook_CoverDone(i) ==
    LET p == proc[i] IN
    /\ p.pc = "cover_done"
    /\ store' = SetState(store, p.sym, [state |-> "FLAT", reason |-> "covered"])
    /\ proc' = [proc EXCEPT ![i] = Ended(p, "done", "ok")]
    /\ UNCHANGED <<orders, position, clock, nsig>>
    /\ stale' = StaleAfter
    /\ staleCalls' = StaleCallsAfter
    /\ cleared' = ClearedAfter
    /\ UNCHANGED <<cancelled, env, lock, thread>>

\* webhook(), action CANCEL
Webhook_Cancel(i) ==
    LET p == proc[i] IN
    /\ p.pc = "dispatch"
    /\ p.action = "CANCEL"
    /\ proc' = [proc EXCEPT ![i] =
                  [p EXCEPT !.pc = "cancel_orders", !.resp = "ok", !.kind = "cleanup",
                            !.reason = "CANCEL signal received from QC"]]
    /\ UNCHANGED <<store, orders, position, clock, nsig>>
    /\ stale' = StaleAfter
    /\ staleCalls' = StaleCallsAfter
    /\ cleared' = ClearedAfter
    /\ cancelled' = cancelled \cup {p.sym}
    /\ UNCHANGED <<env, lock, thread>>

\* an unknown action that blocks the symbol
Webhook_UnknownBlocks(i) ==
    LET p == proc[i] IN
    /\ p.pc = "dispatch"
    /\ p.action \notin {"SHORT", "COVER", "CANCEL"}
    /\ store' = Block(store, p.sym, "unknown action")
    /\ proc' = [proc EXCEPT ![i] = Ended(p, "done", "400 unknown action")]
    /\ UNCHANGED <<orders, position, clock, nsig>>
    /\ stale' = StaleAfter
    /\ staleCalls' = StaleCallsAfter
    /\ cleared' = ClearedAfter
    /\ UNCHANGED <<cancelled, env, lock, thread>>

\* webhook(), any other action
Webhook_Unknown(i) ==
    LET p == proc[i] IN
    /\ p.pc = "dispatch"
    /\ p.action \notin {"SHORT", "COVER", "CANCEL"}
    /\ proc' = [proc EXCEPT ![i] = Ended(p, "done", "400 unknown action")]
    /\ UNCHANGED <<store, orders, position, clock, nsig>>
    /\ stale' = StaleAfter
    /\ staleCalls' = StaleCallsAfter
    /\ cleared' = ClearedAfter
    /\ UNCHANGED <<cancelled, env, lock, thread>>

\* ------------------------------------------------- locate_and_short thread
\* the affordable quantity taken from the buying power alone
MaxAffordableCashOnly(buying_power, margin_available, entry_price) ==
    buying_power \div entry_price

\* int(usable_capital / entry_price)
MaxAffordable(buying_power, margin_available, entry_price) ==
    Min(buying_power, margin_available) \div entry_price

\* min(qc_quantity, max_affordable)
RequestQuantity(qc_quantity, max_affordable) == Min(qc_quantity, max_affordable)

\* the offered quantity left out of the final quantity
FinalQuantityRequested(request_quantity, offered_quantity) == request_quantity

\* min(request_quantity, offered_quantity) if offered_quantity > 0 else request_quantity
FinalQuantity(request_quantity, offered_quantity) ==
    IF offered_quantity > 0 THEN Min(request_quantity, offered_quantity) ELSE request_quantity

\* the ratio compared with the threshold as if it were a percentage
TooExpensiveUnscaled(locate_price, entry_price) ==
    /\ entry_price > 0
    /\ locate_price > 0
    /\ locate_price > MAX_LOCATE_COST_PCT * entry_price

\* locate_price / entry_price > MAX_LOCATE_COST_PCT, when both prices are positive
TooExpensive(locate_price, entry_price) ==
    /\ entry_price > 0
    /\ locate_price > 0
    /\ locate_price * 100 > MAX_LOCATE_COST_PCT * entry_price

\* the re-check `get_state(symbol).get("state") != "LOCATING"`
StateChanged(st, s) == StateGet(st, s) # "LOCATING"

\* Steps 1-4: account details, affordability, request quantity, the quote id.
\* The quote id is the millisecond clock; two ids of the same millisecond are
\* not modelled.
Locate_Account(i) ==
    LET p == proc[i] IN
    /\ p.pc = "account"
    /\ \/ \* get_account_details raises: the thread dies
          /\ proc' = [proc EXCEPT ![i] = Ended(p, "crashed", p.resp)]
          /\ UNCHANGED <<store, clock>>
       \/ \* status is not 200
          /\ store' = Block(store, p.sym, "failed to retrieve account details")
          /\ proc' = [proc EXCEPT ![i] = Ended(p, "done", p.resp)]
          /\ UNCHANGED clock
       \/ \E account \in env.accounts :
            LET max_affordable == MaxAffordable(account[1], account[2], p.price) IN
            \/ /\ max_affordable < MIN_LOCATE_QUANTITY
               /\ store' = Block(store, p.sym, "cannot afford minimum")
               /\ proc' = [proc EXCEPT ![i] = Ended(p, "done", p.resp)]
               /\ UNCHANGED clock
            \/ /\ max_affordable >= MIN_LOCATE_QUANTITY
               /\ clock' = clock + 1
               /\ store' = SetState(store, p.sym, [quote_req_id |-> clock + 1])
               /\ proc' = [proc EXCEPT ![i] =
                             [p EXCEPT !.pc = "request",
                                       !.available_cash = account[1],
                                       !.margin_available = account[2],
                                       !.max_affordable = max_affordable,
                                       !.req_qty = RequestQuantity(p.qty, max_affordable)]]
    /\ UNCHANGED <<orders, position, nsig>>
    /\ stale' = StaleAfter
    /\ staleCalls' = StaleCallsAfter
    /\ cleared' = ClearedAfter
    /\ UNCHANGED <<cancelled, env, lock, thread>>

\* Step 4: request_locate_quote, then the first re-check of the state
Locate_Request(i) ==
    LET p == proc[i] IN
    /\ p.pc = "request"
    /\ \/ \* the request raises: the thread dies
          /\ proc' = [proc EXCEPT ![i] = Ended(p, "crashed", p.resp)]
          /\ UNCHANGED store
       \/ \* a failure status
          \E reason \in {"locate request failed - insufficient inventory",
                         "locate request failed"} :
            /\ store' = Block(store, p.sym, reason)
            /\ proc' = [proc EXCEPT ![i] = Ended(p, "done", p.resp)]
       \/ /\ StateChanged(store, p.sym)
          /\ proc' = [proc EXCEPT ![i] = Ended(p, "aborted", p.resp)]
          /\ UNCHANGED store
       \/ /\ ~StateChanged(store, p.sym)
          /\ proc' = [proc EXCEPT ![i] = [p EXCEPT !.pc = "poll"]]
          /\ UNCHANGED store
    /\ UNCHANGED <<orders, position, clock, nsig>>
    /\ stale' = StaleAfter
    /\ staleCalls' = StaleCallsAfter
    /\ cleared' = ClearedAfter
    /\ UNCHANGED <<cancelled, env, lock, thread>>

\* Step 5: one pass of the loop of poll_locate_status; when it returns (an
\* actionable item, or None at the deadline), the second re-check of the state
Locate_Poll(i) ==
    LET p == proc[i] IN
    /\ p.pc = "poll"
    /\ \/ \* the poll raises: the thread dies
          /\ proc' = [proc EXCEPT ![i] = Ended(p, "crashed", p.resp)]
       \/ \* nothing actionable yet, and time is left
          /\ p.polls + 1 < MaxPolls
          /\ proc' = [proc EXCEPT ![i] = [p EXCEPT !.polls = p.polls + 1]]
       \/ \* it returned, and the state has changed
          /\ StateChanged(store, p.sym)
          /\ proc' = [proc EXCEPT ![i] = Ended(p, "aborted", p.resp)]
       \/ \* nothing actionable and the deadline has passed: None
          /\ p.polls + 1 >= MaxPolls
          /\ ~StateChanged(store, p.sym)
          /\ proc' = [proc EXCEPT ![i] =
                        [p EXCEPT !.pc = "block", !.reason = "locate timed out"]]
       \/ \* an item of status 65, 56, 67 or 52
          /\ ~StateChanged(store, p.sym)
          /\ proc' = [proc EXCEPT ![i] = [p EXCEPT !.pc = "locate"]]
    /\ UNCHANGED <<store, orders, position, clock, nsig>>
    /\ stale' = StaleAfter
    /\ staleCalls' = StaleCallsAfter
    /\ cleared' = ClearedAfter
    /\ UNCHANGED <<cancelled, env, lock, thread>>

\* Steps 6-9 on an offered locate: the reason to block, or NoReason to go on
OfferVerdict(req_qty, entry_price, locate_error, inventory_text, offered_quantity, locate_price) ==
    IF locate_error = 1 THEN "locate offered with error flag"
    ELSE IF inventory_text THEN "insufficient inventory in locate response"
    ELSE IF FinalQuantity(req_qty, offered_quantity) < MIN_LOCATE_QUANTITY
         THEN "final quantity below minimum"
    ELSE IF TooExpensive(locate_price, entry_price) THEN "locate too expensive"
    ELSE NoReason

\* Steps 6-8, from the item the poll returned to the next access to the
\* store or to the broker: block(...) on a status other than Offered or on a
\* check the offer fails, else on to accept_locate.  What the broker put in
\* the item is drawn here, where it is first used.
Locate_Offer(i) ==
    LET p == proc[i] IN
    /\ p.pc = "locate"
    /\ \/ \* status 56, 67, 52
          \E reason \in {"locate rejected by TZ", "locate quote expired",
                         "locate cancelled"} :
            /\ store' = Block(store, p.sym, reason)
            /\ proc' = [proc EXCEPT ![i] = Ended(p, "done", p.resp)]
       \/ \* status 65, Offered
          \E locate \in env.items :
            LET offered_quantity == locate[3]
                verdict == OfferVerdict(p.req_qty, p.price, locate[1], locate[2],
                                        offered_quantity, locate[4])
            IN  \/ /\ verdict # NoReason
                   /\ store' = Block(store, p.sym, verdict)
                   /\ proc' = [proc EXCEPT ![i] = Ended(p, "done", p.resp)]
                \/ /\ verdict = NoReason
                   /\ proc' = [proc EXCEPT ![i] =
                                 [p EXCEPT !.pc = "accept",
                                           !.locate_price = locate[4],
                                           !.offered_quantity = offered_quantity,
                                           !.final_qty = FinalQuantity(p.req_qty,
                                                                       offered_quantity)]]
                   /\ UNCHANGED store
    /\ UNCHANGED <<orders, position, clock, nsig>>
    /\ stale' = StaleAfter
    /\ staleCalls' = StaleCallsAfter
    /\ cleared' = ClearedAfter
    /\ UNCHANGED <<cancelled, env, lock, thread>>

\* Steps 9-10: accept_locate, then block(...) or the third re-check of the
\* state
Locate_Accept(i) ==
    LET p == proc[i] IN
    /\ p.pc = "accept"
    /\ \/ \* accept_locate raises: the thread dies
          /\ proc' = [proc EXCEPT ![i] = Ended(p, "crashed", p.resp)]
          /\ UNCHANGED store
       \/ \* a failure status
          /\ store' = Block(store, p.sym, "locate accept failed")
          /\ proc' = [proc EXCEPT ![i] = Ended(p, "done", p.resp)]
       \/ /\ StateChanged(store, p.sym)
          /\ proc' = [proc EXCEPT ![i] = Ended(p, "aborted", p.resp)]
          /\ UNCHANGED store
       \/ /\ ~StateChanged(store, p.sym)
          /\ proc' = [proc EXCEPT ![i] = [p EXCEPT !.pc = "order"]]
          /\ UNCHANGED store
    /\ UNCHANGED <<orders, position, clock, nsig>>
    /\ stale' = StaleAfter
    /\ staleCalls' = StaleCallsAfter
    /\ cleared' = ClearedAfter
    /\ UNCHANGED <<cancelled, env, lock, thread>>

\* block(symbol, reason) after a poll that timed out or an order that failed
Locate_Block(i) ==
    LET p == proc[i] IN
    /\ p.pc = "block"
    /\ p.kind = "locate"
    /\ store' = Block(store, p.sym, p.reason)
    /\ proc' = [proc EXCEPT ![i] = Ended(p, "done", p.resp)]
    /\ UNCHANGED <<orders, position, clock, nsig>>
    /\ stale' = StaleAfter
    /\ staleCalls' = StaleCallsAfter
    /\ cleared' = ClearedAfter
    /\ UNCHANGED <<cancelled, env, lock, thread>>

\* Step 11: place_order("Sell", ...)
Locate_Order(i) ==
    LET p == proc[i] IN
    /\ p.pc = "order"
    /\ \/ /\ orders' = [orders EXCEPT ![i] =
                          NewOrder("Sell", p.sym, p.final_qty, ShortLimit(p.price))]
          /\ proc' = [proc EXCEPT ![i] = [p EXCEPT !.pc = "active"]]
       \/ \* place_order raises
          /\ proc' = [proc EXCEPT ![i] =
                        [p EXCEPT !.pc = "block", !.reason = "order placement failed"]]
          /\ UNCHANGED orders
    /\ UNCHANGED <<store, position, clock, nsig>>
    /\ stale' = StaleAfter
    /\ staleCalls' = StaleCallsAfter
    /\ cleared' = ClearedAfter
    /\ UNCHANGED <<cancelled, env, lock, thread>>

\* Step 11: set_state(symbol, state="ACTIVE", ...)
Locate_Active(i) ==
    LET p == proc[i] IN
    /\ p.pc = "active"
    /\ store' = SetState(store, p.sym,
               [state |-> "ACTIVE", entry_price |-> p.price, quantity |-> p.final_qty,
                client_order_id |-> i])
    /\ proc' = [proc EXCEPT ![i] = Ended(p, "done", p.resp)]
    /\ UNCHANGED <<orders, position, clock, nsig>>
    /\ stale' = StaleAfter
    /\ staleCalls' = StaleCallsAfter
    /\ cleared' = ClearedAfter
    /\ UNCHANGED <<cancelled, env, lock, thread>>

\* ----------------------------------------------- cancel_and_cleanup thread
OpenOrders(s) == {j \in Procs : orders[j].sym = s /\ orders[j].status = "open"}

\* cancel_all_open_orders(symbol)
Cleanup_CancelOrders(i) ==
    LET p == proc[i] IN
    /\ p.pc = "cancel_orders"
    /\ \/ \* the fetch or a delete raises: the thread dies
          /\ proc' = [proc EXCEPT ![i] = Ended(p, "crashed", p.resp)]
          /\ UNCHANGED orders
       \/ \* the fetch fails: 0 cancelled
          /\ proc' = [proc EXCEPT ![i] = [p EXCEPT !.pc = "get_position"]]
          /\ UNCHANGED orders
       \/ \* each open order of the symbol is deleted, or its delete fails
          \E deleted \in SUBSET OpenOrders(p.sym) :
            /\ orders' = [j \in Procs |->
                            IF j \in deleted THEN [orders[j] EXCEPT !.status = "cancelled"]
                            ELSE orders[j]]
            /\ proc' = [proc EXCEPT ![i] = [p EXCEPT !.pc = "get_position"]]
    /\ UNCHANGED <<store, position, clock, nsig>>
    /\ stale' = StaleAfter
    /\ staleCalls' = StaleCallsAfter
    /\ cleared' = ClearedAfter
    /\ UNCHANGED <<cancelled, env, lock, thread>>

\* a price test that lets every price through
NoValidPriceNever(last_price) == FALSE

\* line 434: `if last_price <= 0`
NoValidPrice(last_price) == last_price <= 0

\* get_position(symbol) and what cancel_and_cleanup decides from it
Cleanup_Position(i) ==
    LET p == proc[i] IN
    /\ p.pc = "get_position"
    /\ \/ \* get_position raises: the thread dies
          /\ proc' = [proc EXCEPT ![i] = Ended(p, "crashed", p.resp)]
       \/ \* the fetch failed or the broker lists no position
          /\ proc' = [proc EXCEPT ![i] = [p EXCEPT !.pc = "block"]]
       \/ \* a long position, or one of 0 shares
          /\ position[p.sym] >= 0
          /\ proc' = [proc EXCEPT ![i] = [p EXCEPT !.pc = "block"]]
       \/ \* a short position
          /\ position[p.sym] < 0
          /\ \E last_price \in PositionPrices :
               \/ /\ NoValidPrice(last_price)
                  /\ proc' = [proc EXCEPT ![i] =
                                [p EXCEPT !.pc = "block",
                                          !.cover_qty = CoverQty(position[p.sym]),
                                          !.last_price = last_price,
                                          !.reason = "cleanup: has position but no valid price - MANUAL ACTION REQUIRED"]]
               \/ /\ ~NoValidPrice(last_price)
                  /\ proc' = [proc EXCEPT ![i] =
                                [p EXCEPT !.pc = "cover",
                                          !.cover_qty = CoverQty(position[p.sym]),
                                          !.last_price = last_price,
                                          !.cover_limit = CoverLimit(last_price)]]
    /\ UNCHANGED <<store, orders, position, clock, nsig>>
    /\ stale' = StaleAfter
    /\ staleCalls' = StaleCallsAfter
    /\ cleared' = ClearedAfter
    /\ UNCHANGED <<cancelled, env, lock, thread>>

\* place_order("Buy", ...) of cancel_and_cleanup
Cleanup_Cover(i) ==
    LET p == proc[i] IN
    /\ p.pc = "cover"
    /\ \/ orders' = [orders EXCEPT ![i] = NewOrder("Buy", p.sym, p.cover_qty, p.cover_limit)]
       \/ \* place_order raises: logged
          UNCHANGED orders
    /\ proc' = [proc EXCEPT ![i] = [p EXCEPT !.pc = "block"]]
    /\ UNCHANGED <<store, position, clock, nsig>>
    /\ stale' = StaleAfter
    /\ staleCalls' = StaleCallsAfter
    /\ cleared' = ClearedAfter
    /\ UNCHANGED <<cancelled, env, lock, thread>>

\* block(symbol, reason) at the end of cancel_and_cleanup
Cleanup_Block(i) ==
    LET p == proc[i] IN
    /\ p.pc = "block"
    /\ p.kind = "cleanup"
    /\ store' = Block(store, p.sym, p.reason)
    /\ proc' = [proc EXCEPT ![i] = Ended(p, "done", p.resp)]
    /\ UNCHANGED <<orders, position, clock, nsig>>
    /\ stale' = StaleAfter
    /\ staleCalls' = StaleCallsAfter
    /\ cleared' = ClearedAfter
    /\ UNCHANGED <<cancelled, env, lock, thread>>

\* ------------------------------------------------------ operator and clock
\* reset_symbol(symbol)
Reset_Symbol(s) ==
    /\ store' = ResetTo(store, s)
    /\ UNCHANGED <<proc, orders, position, clock, nsig>>
    /\ stale' = StaleAfter
    /\ staleCalls' = StaleCallsAfter
    /\ cleared' = ClearedAfter
    /\ cancelled' = cancelled \ {s}
    /\ UNCHANGED <<env, lock, thread>>

\* midnight_reset_thread(): a pass of its loop in which date.today() is no
\* longer reset_date.  Days keep coming, so the pass is always possible.
Midnight_Reset ==
    /\ store' = ClearAll(store)
    /\ UNCHANGED <<proc, orders, position, clock, nsig>>
    /\ stale' = StaleAfter
    /\ staleCalls' = StaleCallsAfter
    /\ cleared' = ClearedAtMidnight
    /\ cancelled' = {}
    /\ UNCHANGED <<env, lock, thread>>

\* --------------------------------------------------------------- the broker
\* An open order fills.
Broker_Fill(i) ==
    /\ orders[i].status = "open"
    /\ orders' = [orders EXCEPT ![i].status = "filled"]
    /\ position' = [position EXCEPT ![orders[i].sym] =
                      IF orders[i].side = "Sell" THEN @ - orders[i].qty ELSE @ + orders[i].qty]
    /\ UNCHANGED <<store, proc, clock, nsig>>
    /\ stale' = StaleAfter
    /\ staleCalls' = StaleCallsAfter
    /\ cleared' = ClearedAfter
    /\ UNCHANGED <<cancelled, env, lock, thread>>

Next ==
    \/ \E i \in Procs : Webhook_Parse(i)
    \/ \E i \in Procs : Webhook_Short(i)
    \/ \E i \in Procs : Webhook_Cover(i)
    \/ \E i \in Procs : Webhook_CoverBlock(i)
    \/ \E i \in Procs : Webhook_CoverOrder(i)
    \/ \E i \in Procs : Webhook_CoverDone(i)
    \/ \E i \in Procs : Webhook_Cancel(i)
    \/ \E i \in Procs : Webhook_Unknown(i)
    \/ \E i \in Procs : Locate_Account(i)
    \/ \E i \in Procs : Locate_Request(i)
    \/ \E i \in Procs : Locate_Poll(i)
    \/ \E i \in Procs : Locate_Offer(i)
    \/ \E i \in Procs : Locate_Accept(i)
    \/ \E i \in Procs : Locate_Block(i)
    \/ \E i \in Procs : Locate_Order(i)
    \/ \E i \in Procs : Locate_Active(i)
    \/ \E i \in Procs : Cleanup_CancelOrders(i)
    \/ \E i \in Procs : Cleanup_Position(i)
    \/ \E i \in Procs : Cleanup_Cover(i)
    \/ \E i \in Procs : Cleanup_Block(i)
    \/ \E s \in Symbols : Reset_Symbol(s)
    \/ Midnight_Reset
    \/ \E i \in Procs : Broker_Fill(i)

Spec == Init /\ [][Next]_vars

\* The server fed requests one at a time, with the wider inputs.
GateInit ==
    /\ store = [x \in {} |-> NewRec]
    /\ proc = [i \in Procs |-> IdleProc]
    /\ orders = [i \in Procs |-> NoOrder]
    /\ position = [s \in Symbols |-> 0]
    /\ stale = {}
    /\ staleCalls = [i \in Procs |-> 0]
    /\ cancelled = {}
    /\ cleared = {}
    /\ clock = 0
    /\ nsig = 0
    /\ env = [signals |-> GateSignals, running |-> GateRunning,
              inputs |-> GateSignalInputs, accounts |-> GateAccountInputs,
              items |-> GateLocateItems, audit |-> TRUE]
    /\ lock = NoHolder
    /\ thread = [t \in Threads |-> IdleThread]

GateSpec == GateInit /\ [][Next]_vars

\* --------------------------------------------- the lock-level state machine
\* The threads of the server seen at the grain of state_lock: each steps
\* through the calls of the path it took, and "acquire" waits for the lock.
UnderWay == {t \in Threads : thread[t].ops # <<>>}

NextOp(t) == IF thread[t].ops = <<>> THEN "none" ELSE Head(thread[t].ops)

Advance(t, net) == [thread EXCEPT ![t] = [ops |-> Tail(thread[t].ops), net |-> net]]

Thread_Start(t) ==
    /\ thread[t].ops = <<>>
    /\ Cardinality(UnderWay) < LockThreads
    /\ \E path \in Calls(t) :
          thread' = [thread EXCEPT ![t] = [ops |-> path, net |-> FALSE]]
    /\ UNCHANGED <<store, proc, orders, position, stale, staleCalls, cancelled, cleared,
                 clock, nsig, env, lock>>

Lock_Acquire(t) ==
    /\ NextOp(t) = "acquire"
    /\ lock = NoHolder
    /\ lock' = t
    /\ thread' = Advance(t, thread[t].net)
    /\ UNCHANGED <<store, proc, orders, position, stale, staleCalls, cancelled, cleared,
                 clock, nsig, env>>

Lock_Release(t) ==
    /\ NextOp(t) = "release"
    /\ lock = t
    /\ lock' = NoHolder
    /\ thread' = Advance(t, thread[t].net)
    /\ UNCHANGED <<store, proc, orders, position, stale, staleCalls, cancelled, cleared,
                 clock, nsig, env>>

Net_Send(t) ==
    /\ NextOp(t) = "send"
    /\ thread' = Advance(t, TRUE)
    /\ UNCHANGED <<store, proc, orders, position, stale, staleCalls, cancelled, cleared,
                 clock, nsig, env, lock>>

Net_Receive(t) ==
    /\ NextOp(t) = "receive"
    /\ thread' = Advance(t, FALSE)
    /\ UNCHANGED <<store, proc, orders, position, stale, staleCalls, cancelled, cleared,
                 clock, nsig, env, lock>>

LockNext ==
    \/ \E t \in Threads : Thread_Start(t)
    \/ \E t \in Threads : Lock_Acquire(t)
    \/ \E t \in Threads : Lock_Release(t)
    \/ \E t \in Threads : Net_Send(t)
    \/ \E t \in Threads : Net_Receive(t)

LockSpec == Init /\ [][LockNext]_vars

\* ------------------------------------------------------------------ properties
\* The locate threads of symbol s that have not ended.
LocateThreads(s) ==
    {j \in Running : proc[j].kind = "locate" /\ proc[j].sym = s}

\* A step taken by request or thread i.
StepOf(i) == proc'[i] # proc[i]

\* A step of the operator or of the midnight thread: no request or thread moves.
OperatorStep == proc' = proc /\ orders' = orders

\* C1: two SHORT signals handled concurrently from FLAT give one LOCATING
\* transition and one locate thread: within one LOCATING episode of a symbol
\* there is never a second locate thread.
C1_OneLocatePerEpisode ==
    \A s \in Symbols : Cardinality(LocateThreads(s) \ stale) <= 1

\* C2: BLOCKED is terminal for the day: a symbol that is BLOCKED stays BLOCKED
\* in every step but a manual reset or the daily clear.
C2_BlockedIsTerminal ==
    [][\A s \in Symbols :
          (StateGet(store, s) = "BLOCKED" /\ StateGet(store', s) # "BLOCKED")
              => OperatorStep]_vars

\* C3: after a CANCEL for a symbol, with no reset or clear since, the symbol
\* is BLOCKED once every request and thread has ended.
C3_CancelEndsBlocked ==
    \A s \in cancelled : Running = {} => StateGet(store, s) = "BLOCKED"

\* The cover (Buy) orders of symbol s that are open at the broker.
OpenCovers(s) ==
    {j \in Procs : /\ orders[j].sym = s
                   /\ orders[j].side = "Buy"
                   /\ orders[j].status = "open"}

\* C4: a short position gets exactly one cover order, also when CANCEL
\* signals, or a CANCEL and a COVER, overlap: the cover order the cleanup of a
\* CANCEL has just placed has the size of the position it looked up and is
\* the only cover order open for the symbol.
C4_ExactlyOneCover ==
    \A i \in Procs :
        ( /\ proc[i].kind = "cleanup"
          /\ proc[i].reason = "CANCEL signal received from QC"
          /\ proc[i].pc = "block"
          /\ i \in OpenCovers(proc[i].sym) )
            => /\ orders[i].qty = proc[i].cover_qty
               /\ OpenCovers(proc[i].sym) = {i}

\* C5: a locate thread whose symbol has stopped being LOCATING writes nothing
\* more to the store.
C5_StaleNeverWrites ==
    [][\A i \in stale : StepOf(i) => store' = store]_vars

\* C6: while a newer LOCATING episode of its symbol is on, the locate thread
\* of an ended episode neither writes the store nor places an order.
C6_StaleNeverActsForNewer ==
    [][\A i \in stale :
          (StepOf(i) /\ StateGet(store, proc[i].sym) = "LOCATING")
              => (store' = store /\ orders' = orders)]_vars

\* C7: no symbol is left stuck in LOCATING: while a symbol is LOCATING, a
\* locate thread for it is still running.
C7_LocatingHasThread ==
    \A s \in Symbols : StateGet(store, s) = "LOCATING" => LocateThreads(s) # {}

\* C8: SHORT read in LOCATING or BLOCKED, and COVER read in BLOCKED, is
\* ignored: the store, the orders and the positions stay as they are, the
\* request ends with "ignored" and starts no thread.
C8_IgnoredChangesNothing ==
    [][\A i \in Procs :
          ( /\ StepOf(i)
            /\ proc[i].pc = "dispatch"
            /\ \/ proc[i].action = "SHORT" /\ proc[i].snap \in {"LOCATING", "BLOCKED"}
               \/ proc[i].action = "COVER" /\ proc[i].snap = "BLOCKED" )
              => /\ store' = store
                 /\ orders' = orders
                 /\ position' = position
                 /\ proc'[i].pc = "done"
                 /\ proc'[i].resp = "ignored"
                 /\ proc'[i].kind = "none"]_vars

\* C8: a request has been ignored and the symbol is LOCATING or BLOCKED.
C8_Witness ==
    \E i \in Procs, s \in Symbols :
        /\ proc[i].pc = "done"
        /\ proc[i].resp = "ignored"
        /\ StateGet(store, s) \in {"LOCATING", "BLOCKED"}

\* C9: SHORT read in ACTIVE and COVER read in FLAT are rejected: the symbol
\* is BLOCKED with a reason, the request ends with "rejected", places no
\* order and starts no thread.
C9_ContradictionBlocks ==
    [][\A i \in Procs :
          ( /\ StepOf(i)
            /\ proc[i].pc = "dispatch"
            /\ \/ proc[i].action = "SHORT" /\ proc[i].snap = "ACTIVE"
               \/ proc[i].action = "COVER" /\ proc[i].snap = "FLAT" )
              => /\ StateGet(store', proc[i].sym) = "BLOCKED"
                 /\ store'[proc[i].sym].reason # NoReason
                 /\ orders' = orders
                 /\ proc'[i].pc = "done"
                 /\ proc'[i].resp = "rejected"
                 /\ proc'[i].kind = "none"]_vars

\* C9: a request has been rejected and its symbol is BLOCKED with a reason.
C9_Witness ==
    \E i \in Procs, s \in Symbols :
        /\ proc[i].pc = "done"
        /\ proc[i].resp = "rejected"
        /\ StateGet(store, s) = "BLOCKED"
        /\ store[s].reason # NoReason

\* C10, as stated: every COVER read in ACTIVE ends with a cover order placed
\* and the symbol FLAT.
C10_CoverAlwaysCovers ==
    [][\A i \in Procs :
          ( /\ proc[i].action = "COVER"
            /\ proc[i].snap = "ACTIVE"
            /\ proc'[i].pc = "done" )
              => /\ orders'[i].side = "Buy"
                 /\ StateView(store', proc[i].sym) = "FLAT"]_vars

\* C10, amended: a COVER read in ACTIVE goes on to the order only with a short
\* position, with the quantity the absolute value of the shares it looked up;
\* the order it books is a Buy of that quantity; and no request or thread
\* takes a symbol to FLAT but that COVER path, after its order is booked.
C10_CoverThenFlat ==
    [][\A i \in Procs :
          /\ ( /\ proc[i].pc = "dispatch"
               /\ proc'[i].pc = "cover_order" )
                => /\ proc[i].action = "COVER"
                   /\ proc[i].snap = "ACTIVE"
                   /\ position[proc[i].sym] < 0
                   /\ proc'[i].cover_qty = -position[proc[i].sym]
                   /\ store' = store
          /\ ( /\ proc[i].pc = "cover_order"
               /\ proc'[i].pc = "cover_done" )
                => /\ orders'[i].side = "Buy"
                   /\ orders'[i].sym = proc[i].sym
                   /\ orders'[i].qty = proc[i].cover_qty
                   /\ orders'[i].status = "open"
          /\ ( /\ StepOf(i)
               /\ StateView(store, proc[i].sym) # "FLAT"
               /\ StateView(store', proc[i].sym) = "FLAT" )
                => /\ proc[i].pc = "cover_done"
                   /\ orders[i].side = "Buy"
                   /\ orders[i].qty = proc[i].cover_qty
                   /\ orders[i].qty > 0]_vars

\* C10: a COVER request has placed its Buy order and left the symbol FLAT.
C10_Witness ==
    \E i \in Procs :
        /\ proc[i].pc = "done"
        /\ proc[i].resp = "ok"
        /\ orders[i].side = "Buy"
        /\ orders[i].qty = 500
        /\ StateGet(store, orders[i].sym) = "FLAT"
        /\ store[orders[i].sym].reason = "covered"

\* The step books a Sell order of request or thread i at the broker.
SellPlaced(i) == orders[i].side = "none" /\ orders'[i].side = "Sell"

\* A locate thread that has passed the affordability gate.
PastAccount(p) ==
    p.kind = "locate" /\ p.pc \in {"request", "poll", "locate", "accept", "order", "active"}

\* C11: with max_affordable = floor(min(buyingPower, marginAvailable) /
\* entryPrice), a locate thread goes past its account step only with
\* max_affordable at least the minimum lot; otherwise the step ends the
\* thread, with the symbol BLOCKED when the account was read, and places no
\* order.  1000.00 of buying power and margin at 12.00 give 83: blocked.
C11_AffordabilityGate ==
    [][/\ MaxAffordable(100000, 100000, 1200) = 83
       /\ 83 < MIN_LOCATE_QUANTITY
       /\ \A i \in Procs :
            (proc[i].pc = "account" /\ StepOf(i)) =>
                LET q  == proc'[i]
                    s  == proc[i].sym
                    usable == IF q.available_cash <= q.margin_available
                              THEN q.available_cash ELSE q.margin_available
                IN  \/ /\ q.pc = "request"
                       /\ q.max_affordable = usable \div proc[i].price
                       /\ q.max_affordable >= MIN_LOCATE_QUANTITY
                    \/ /\ q.pc = "done"
                       /\ StateGet(store', s) = "BLOCKED"
                       /\ store'[s].reason \in {"cannot afford minimum",
                                                "failed to retrieve account details"}
                       /\ orders' = orders
                    \/ /\ q.pc = "crashed"
                       /\ store' = store
                       /\ orders' = orders]_vars

\* C11: a symbol is BLOCKED for want of buying power and no order was placed.
C11_Witness ==
    \E s \in DOMAIN store :
        /\ store[s].state = "BLOCKED"
        /\ store[s].reason = "cannot afford minimum"
        /\ \A j \in Procs : orders[j] = NoOrder

\* locatePrice / entryPrice is at most 2%, for prices in cents.
WithinCostLimit(locate_price, entry_price) == locate_price * 50 <= entry_price

\* C12: the locate is accepted and the short order placed only with
\* locatePrice / entryPrice at most 2%: a thread reaches accept_locate, calls
\* it and places its Sell order only with a locate price within the limit,
\* and a step on the offer that does not go on to accept ends the thread with
\* the symbol BLOCKED and no order.  At 10.00 a locate price of 0.25 is too
\* expensive and one of 0.15 is not.
C12_LocateCostGate ==
    [][/\ TooExpensive(25, 1000)
       /\ ~TooExpensive(15, 1000)
       /\ \A i \in Procs :
            /\ (proc[i].pc = "locate" /\ StepOf(i)) =>
                  \/ /\ proc'[i].pc = "accept"
                     /\ WithinCostLimit(proc'[i].locate_price, proc[i].price)
                     /\ store' = store
                     /\ orders' = orders
                  \/ /\ proc'[i].pc = "done"
                     /\ StateGet(store', proc[i].sym) = "BLOCKED"
                     /\ orders' = orders
            /\ (proc[i].pc = "accept" /\ StepOf(i)) =>
                  WithinCostLimit(proc[i].locate_price, proc[i].price)
            /\ SellPlaced(i) =>
                  /\ proc[i].pc = "order"
                  /\ WithinCostLimit(proc[i].locate_price, proc[i].price)]_vars

\* C12: a symbol is BLOCKED because the locate was too expensive, with no
\* order placed.
C12_Witness ==
    \E s \in DOMAIN store :
        /\ store[s].state = "BLOCKED"
        /\ store[s].reason = "locate too expensive"
        /\ \A j \in Procs : orders[j] = NoOrder

\* C13: requestQuantity = min(signalQuantity, max_affordable) and
\* finalQuantity = min(requestQuantity, offeredQuantity) when an offered
\* quantity was given, else requestQuantity; a thread goes on to accept only
\* with finalQuantity at least the minimum lot, and its Sell order is for
\* finalQuantity: never fewer than the minimum lot, never more than the
\* signal quantity, the affordable quantity or the offered quantity.
C13_QuantityGates ==
    [][\A i \in Procs :
          LET p == proc[i]
              q == proc'[i]
          IN  /\ (p.pc = "account" /\ q.pc = "request") =>
                    q.req_qty = (IF p.qty <= q.max_affordable THEN p.qty
                                 ELSE q.max_affordable)
              /\ (p.pc = "locate" /\ q.pc = "accept") =>
                    /\ q.final_qty =
                          (IF q.offered_quantity > 0
                           THEN (IF p.req_qty <= q.offered_quantity THEN p.req_qty
                                 ELSE q.offered_quantity)
                           ELSE p.req_qty)
                    /\ q.final_qty >= MIN_LOCATE_QUANTITY
              /\ SellPlaced(i) =>
                    /\ p.pc = "order"
                    /\ orders'[i].qty = p.final_qty
                    /\ orders'[i].qty >= MIN_LOCATE_QUANTITY
                    /\ orders'[i].qty <= p.qty
                    /\ orders'[i].qty <= p.max_affordable
                    /\ p.offered_quantity > 0 => orders'[i].qty <= p.offered_quantity]_vars

\* C13: a Sell order was placed for the offered 300 shares, fewer than the
\* 500 of the signal.
C13_Witness ==
    \E j \in Procs :
        /\ orders[j].side = "Sell"
        /\ orders[j].qty = 300

\* C14: the steps of the locate thread are gates in order: polling starts
\* only after the request, the locate is accepted only after an offer that
\* passed its checks, the Sell order is placed only after the accept; and a
\* step that ends the thread at a gate, other than an abort on a changed
\* state, leaves the symbol BLOCKED and places no order.
C14_GatesInOrder ==
    [][\A i \in Procs :
          LET p == proc[i]
              q == proc'[i]
          IN  /\ (q.pc = "poll" /\ p.pc # "poll") => p.pc = "request"
              /\ (q.pc = "locate" /\ p.pc # "locate") => p.pc = "poll"
              /\ (q.pc = "accept" /\ p.pc # "accept") => p.pc = "locate"
              /\ (q.pc = "order" /\ p.pc # "order") => p.pc = "accept"
              /\ SellPlaced(i) => p.pc = "order"
              /\ ( /\ p.kind = "locate"
                   /\ p.pc \in {"request", "poll", "locate", "accept", "order", "block"}
                   /\ q.pc \in {"done", "crashed"} )
                    => /\ StateGet(store', p.sym) = "BLOCKED"
                       /\ orders' = orders]_vars

\* A step of request i that dispatches an action the server does not know.
UnknownActionStep(i) ==
    /\ StepOf(i)
    /\ proc[i].pc = "dispatch"
    /\ proc[i].action \notin {"SHORT", "COVER", "CANCEL"}

\* C15, as stated: an unknown action leaves the symbol BLOCKED with a reason.
C15_UnknownActionBlocks ==
    [][\A i \in Procs :
          UnknownActionStep(i) =>
              /\ StateGet(store', proc[i].sym) = "BLOCKED"
              /\ store'[proc[i].sym].reason # NoReason]_vars

\* C15, amended: an unknown action is refused as an input error: the request
\* is answered 400 "unknown action" and changes no state, starts no thread
\* and places no order.
C15_UnknownActionRefused ==
    [][\A i \in Procs :
          UnknownActionStep(i) =>
              /\ store' = store
              /\ orders' = orders
              /\ position' = position
              /\ proc'[i].pc = "done"
              /\ proc'[i].resp = "400 unknown action"
              /\ proc'[i].kind = "none"]_vars

\* C15: an unknown action has been refused and no symbol is BLOCKED.
C15_Witness ==
    /\ \E i \in Procs : proc[i].pc = "done" /\ proc[i].resp = "400 unknown action"
    /\ \A s \in Symbols : StateView(store, s) # "BLOCKED"

\* The 4xx answers of the webhook to an input error.
InputErrors == {"400 invalid JSON", "400 missing symbol", "400 quantity and price required"}

\* A step of request i on a body that is not JSON or has no symbol.
ParseErrorStep(i) == proc[i].pc = "idle" /\ proc'[i].pc = "done"

\* A step of request i that dispatches a SHORT lacking a positive quantity
\* or price.
ShortWithoutNumbers(i) ==
    /\ StepOf(i)
    /\ proc[i].pc = "dispatch"
    /\ proc[i].action = "SHORT"
    /\ (proc[i].qty <= 0 \/ proc[i].price <= 0)

\* The request is answered 4xx and nothing else happens.
RefusedUntouched(i) ==
    /\ proc'[i].pc = "done"
    /\ proc'[i].resp \in InputErrors
    /\ proc'[i].kind = "none"
    /\ store' = store
    /\ orders' = orders
    /\ position' = position

C17_ReasonIffBlocked ==
    \A s \in DOMAIN store : (store[s].reason # NoReason) <=> (store[s].state = "BLOCKED")

\* C17, amended: a record in BLOCKED carries a reason.  A record in FLAT,
\* LOCATING or ACTIVE can carry one too: COVER writes FLAT with the reason
\* "covered", and set_state removes no field.
C17_BlockedHasReason ==
    \A s \in DOMAIN store : store[s].state = "BLOCKED" => store[s].reason # NoReason

\* C17: a symbol is BLOCKED, with its reason.
C17_Witness ==
    \E s \in DOMAIN store : store[s].state = "BLOCKED" /\ store[s].reason # NoReason

\* The record {"state": "FLAT"}: no metadata, no reason.
ExactlyFlat ==
    [state |-> "FLAT", entry_price |-> NoVal, quantity |-> NoVal,
     quote_req_id |-> NoVal, client_order_id |-> NoVal, reason |-> NoReason]

\* C18: the manual reset leaves the record of its symbol exactly FLAT, from
\* any state; on a FLAT symbol the state stays FLAT; a second reset changes
\* nothing.  It holds of the reset steps taken and of a reset in any state
\* reached.
C18_ResetIdempotent ==
    [][/\ (OperatorStep /\ store' # store /\ DOMAIN store' # {}) =>
             \E s \in Symbols :
                /\ store'[s] = ExactlyFlat
                /\ StateView(store', s) = "FLAT"
                /\ \A x \in DOMAIN store \ {s} : store'[x] = store[x]
                /\ ResetTo(store', s) = store'
       /\ \A s \in Symbols :
             LET once == ResetTo(store, s) IN
             /\ once[s] = ExactlyFlat
             /\ DOMAIN once = DOMAIN store \cup {s}
             /\ \A x \in DOMAIN store \ {s} : once[x] = store[x]
             /\ ResetTo(once, s) = once
             /\ StateView(store, s) = "FLAT" => StateView(once, s) = "FLAT"]_vars

\* C18: a symbol that a request had blocked has been reset: its record is
\* exactly FLAT.
C18_Witness ==
    /\ \E i \in Procs : proc[i].pc = "done" /\ proc[i].resp = "rejected"
    /\ \E s \in DOMAIN store : store[s] = ExactlyFlat

\* C19: the daily clear empties the store in one step: an operator or
\* midnight step that removes a symbol removes them all, after which every
\* symbol reads FLAT; and the clear of any state reached leaves no symbol.
C19_DailyClear ==
    [][/\ (OperatorStep /\ ~(DOMAIN store \subseteq DOMAIN store')) =>
             /\ DOMAIN store' = {}
             /\ \A s \in Symbols : StateView(store', s) = "FLAT"
       /\ DOMAIN ClearAll(store) = {}]_vars

\* C19: the store is empty after a request had blocked a symbol.
C19_Witness ==
    /\ \E i \in Procs : proc[i].pc = "done" /\ proc[i].resp = "rejected"
    /\ DOMAIN store = {}

\* C20: the state lock is never held across a network call: no thread is
\* inside a `with state_lock` block while a request of its own to the broker
\* is open, whichever threads run beside it.
C20_LockNotAcrossNetwork ==
    \A t \in Threads : lock = t => ~thread[t].net

\* The lock is held by one thread while another has a request open.
C20_Witness ==
    \E t, u \in Threads : t # u /\ lock = t /\ thread[u].net

\* The reason of the block at line 436.
ManualAction == "cleanup: has position but no valid price - MANUAL ACTION REQUIRED"

\* Request or thread i places a Buy order in this step.
BuyPlaced(i) == orders[i].side = "none" /\ orders'[i].side = "Buy"

\* C21: the cleanup places a cover order only for a position it has just
\* fetched as short and with a positive price: the order has the size of that
\* position and the limit of that price; a long, flat or absent position
\* leads to the final block with no order; a short position without a valid
\* price leads to no order and to a block with the manual-action reason.
C21_CleanupCoversOnlyShort ==
    [][\A i \in Procs : proc[i].kind = "cleanup" =>
          /\ BuyPlaced(i) =>
                /\ proc[i].pc = "cover"
                /\ proc[i].cover_qty > 0 /\ proc[i].last_price > 0
                /\ orders'[i].qty = proc[i].cover_qty
                /\ orders'[i].limit = CoverLimit(proc[i].last_price)
          /\ (proc[i].pc = "get_position" /\ StepOf(i)) =>
                /\ orders' = orders
                /\ proc'[i].pc = "cover" =>
                      /\ position[proc[i].sym] < 0
                      /\ proc'[i].cover_qty = -position[proc[i].sym]
                      /\ proc'[i].last_price > 0
                /\ position[proc[i].sym] >= 0 =>
                      /\ proc'[i].pc \in {"block", "crashed"}
                      /\ proc'[i].pc = "block" =>
                            proc'[i].reason = proc[i].reason /\ proc'[i].cover_qty = 0
                /\ (proc'[i].pc = "block" /\ proc'[i].cover_qty > 0) =>
                      /\ position[proc[i].sym] < 0
                      /\ proc'[i].last_price <= 0
                      /\ proc'[i].reason = ManualAction
          /\ (proc[i].pc = "block" /\ StepOf(i)) =>
                /\ orders' = orders
                /\ StateGet(store', proc[i].sym) = "BLOCKED"
                /\ store'[proc[i].sym].reason = proc[i].reason
                /\ (proc[i].cover_qty > 0 /\ proc[i].last_price <= 0) =>
                      /\ store'[proc[i].sym].reason = ManualAction
                      /\ orders[i] = NoOrder
      ]_vars

\* One cleanup has placed its cover order for a short position, and another
\* has found the position short without a valid price and placed none.
C21_Witness ==
    \E i, j \in Procs :
        /\ proc[i].kind = "cleanup" /\ orders[i].side = "Buy"
        /\ proc[j].kind = "cleanup" /\ proc[j].pc = "block"
        /\ proc[j].reason = ManualAction /\ orders[j] = NoOrder
        /\ position[proc[j].sym] < 0

\* The locals of a locate thread in the scenario: SHORT of 500 shares at 5.70
\* with capital for all of them, and a locate of 500 shares offered at 0.05.
ScenarioShort(p) ==
    /\ p.kind = "locate" /\ p.qty = 500 /\ p.price = 570
    /\ p.max_affordable >= 500
    /\ p.offered_quantity = 500 /\ p.locate_price = 5

\* C22: in the scenario the short order is 500 shares at limit 5.67 and the
\* thread then writes ACTIVE with that quantity and entry price; a COVER that
\* reads ACTIVE and is told shares = -500 at the price 5.50 computes 500
\* shares at limit 5.53, places exactly that order, and writes FLAT.
C22_Scenario ==
    [][\A i \in Procs :
          /\ (SellPlaced(i) /\ ScenarioShort(proc[i])) =>
                orders'[i] = NewOrder("Sell", proc[i].sym, 500, 567)
          /\ (proc[i].pc = "active" /\ StepOf(i) /\ ScenarioShort(proc[i])) =>
                /\ orders[i] = NewOrder("Sell", proc[i].sym, 500, 567)
                   \/ orders[i] = [NewOrder("Sell", proc[i].sym, 500, 567)
                                      EXCEPT !.status = orders[i].status]
                /\ store'[proc[i].sym].state = "ACTIVE"
                /\ store'[proc[i].sym].quantity = 500
                /\ store'[proc[i].sym].entry_price = 570
          /\ ( /\ proc[i].pc = "dispatch" /\ proc[i].action = "COVER"
               /\ proc'[i].pc = "cover_order"
               /\ position[proc[i].sym] = -500 /\ proc'[i].last_price = 550 ) =>
                /\ proc[i].snap = "ACTIVE"
                /\ proc'[i].cover_qty = 500
                /\ proc'[i].cover_limit = 553
          /\ ( /\ BuyPlaced(i) /\ proc[i].pc = "cover_order"
               /\ proc[i].cover_qty = 500 /\ proc[i].last_price = 550 ) =>
                /\ orders'[i] = NewOrder("Buy", proc[i].sym, 500, 553)
                /\ proc'[i].pc = "cover_done"
          /\ (proc[i].pc = "cover_done" /\ StepOf(i)) =>
                /\ orders[i].side = "Buy"
                /\ store'[proc[i].sym].state = "FLAT"
      ]_vars

\* The scenario has run to its end: the short order of 500 at 5.67 has
\* filled, the cover order of 500 at 5.53 is placed, they are the only two
\* orders, and the symbol is FLAT.
C22_Witness ==
    \E i, j \in Procs :
        /\ orders[i] = [NewOrder("Sell", "LRMR", 500, 567) EXCEPT !.status = "filled"]
        /\ orders[j].side = "Buy" /\ orders[j].sym = "LRMR"
        /\ orders[j].qty = 500 /\ orders[j].limit = 553
        /\ \A k \in Procs \ {i, j} : orders[k] = NoOrder
        /\ StateGet(store, "LRMR") = "FLAT"
        /\ Running = {}

\* C23: once its symbol has stopped being LOCATING, a locate thread that is
\* still running completes at most one further broker call: a stale thread
\* that completes a call has completed none since its episode ended.
C23_OneStaleCall ==
    [][\A j \in stale : CompletesCall(j) => staleCalls[j] = 0]_vars

\* The COVER handlers that have placed their cover order for symbol s and have
\* not yet written FLAT: the cover orders of the ACTIVE episode that is on.
EpisodeCovers(s) ==
    {i \in Procs : proc[i].pc = "cover_done" /\ proc[i].sym = s}

\* The total quantity of the orders of the requests in S.
RECURSIVE TotalQty(_)
TotalQty(S) ==
    IF S = {} THEN 0
    ELSE LET i == CHOOSE x \in S : TRUE IN orders[i].qty + TotalQty(S \ {i})

\* The short position the episode opened: the shares sold by the filled Sell
\* orders of symbol s.
SharesShorted(s) ==
    TotalQty({i \in Procs : /\ orders[i].sym = s /\ orders[i].side = "Sell"
                            /\ orders[i].status = "filled"})

\* C24: overlapping COVER signals for a symbol that is ACTIVE give at most
\* one cover order, and the cover orders of one ACTIVE episode never add up
\* to more than the short position.
C24_OneCoverForOverlap ==
    \A s \in Symbols :
        /\ Cardinality(EpisodeCovers(s)) <= 1
        /\ TotalQty(EpisodeCovers(s)) <= SharesShorted(s)

\* The short this system opened for symbol s is at the broker: a Sell order
\* of the symbol is open, or the position is short.
ShortAtBroker(s) ==
    \/ \E i \in Procs : /\ orders[i].sym = s /\ orders[i].side = "Sell"
                        /\ orders[i].status = "open"
    \/ position[s] < 0

\* C25: no short is abandoned by a block: a step that takes a symbol from
\* ACTIVE to BLOCKED while its short is at the broker is the block that ends a
\* cleanup (which has cancelled the open orders and covered the position), or
\* it blocks with the manual-action reason.
C25_NoShortAbandoned ==
    [][\A s \in Symbols :
          ( /\ StateGet(store, s) = "ACTIVE"
            /\ StateGet(store', s) = "BLOCKED"
            /\ ShortAtBroker(s) )
              => \/ \E i \in Procs : StepOf(i) /\ proc[i].kind = "cleanup"
                 \/ store'[s].reason = ManualAction]_vars

\* C26: when place_order fails in the COVER path of the dispatcher, the
\* handler answers 500 with the error and writes nothing: the record of the
\* symbol keeps its state, entry price, quantity and order id, no order is
\* booked and the position is as it was.
C26_FailedCoverKeepsState ==
    [][\A i \in Procs :
          (proc[i].pc = "cover_order" /\ StepOf(i) /\ ~BuyPlaced(i)) =>
              /\ proc'[i].pc = "done"
              /\ proc'[i].resp = "500 error"
              /\ store' = store
              /\ orders' = orders
              /\ position' = position]_vars

\* A COVER has failed with a 500 and left the symbol ACTIVE with its entry
\* price, quantity and order id; a later COVER has found it ACTIVE and placed
\* the cover order.
C26_Witness ==
    \E i, j \in Procs :
        /\ i < j
        /\ proc[i].pc = "done" /\ proc[i].resp = "500 error"
        /\ orders[i] = NoOrder
        /\ proc[j].pc = "cover_done" /\ proc[j].snap = "ACTIVE"
        /\ orders[j].side = "Buy" /\ orders[j].qty = 500
        /\ StateGet(store, "LRMR") = "ACTIVE"
        /\ store["LRMR"].entry_price = 570 /\ store["LRMR"].quantity = 500
        /\ store["LRMR"].client_order_id # NoVal

\* C27: a workflow launched before a daily clear does not write into the new
\* day: a locate or cleanup thread that was running when the store was
\* cleared creates or modifies no record afterwards.
C27_NoWriteIntoNewDay ==
    [][\A i \in cleared : StepOf(i) => store' = store]_vars

====
